---- MODULE Spec2Model ----
(***************************************************************************)
(* Model of the DocuFlow integration layer:                                *)
(*   src/vectorizer.py  Vectorizer.vectorize_metadata, vectorize_query,    *)
(*                      generate_answer                                    *)
(*   src/test_api.py    test_upload_invoice, test_upload_contract          *)
(*                                                                         *)
(* A Python string is a sequence of tokens; the token " " is a whitespace  *)
(* character, every other token is a run of non-whitespace-bounded text.   *)
(* An optional attribute (hasattr) is a record [has, val].                 *)
(***************************************************************************)
EXTENDS Integers, Sequences, FiniteSets, TLC

VARIABLES
    op,             \* the operation being executed, "none" between calls
    pc,             \* position inside the operation
    calls,          \* requests issued to external services during this call
    result,         \* how the call ended: returned value or raised error
    context_texts,  \* generate_answer argument
    contract_ids,   \* generate_answer argument
    model_name,     \* Config.GEMINI_GENERATION_MODEL
    context_parts,  \* generate_answer local: the labeled fragments
    prompt,         \* generate_answer local: the prompt sent to the model
    model,          \* generate_answer local: the initialized model
    model_error,    \* generate_answer local: error of the configured model
    alt_idx,        \* generate_answer local: position in alternative_models
    response,       \* generate_answer local: what generate_content returned
    metadata,       \* vectorize_metadata argument
    text,           \* content sent to embed_content
    embed_result,   \* what embed_content returned
    fs,             \* upload tester: what the file system does with pdf_path
    http,           \* upload tester: what requests.post does
    printed         \* upload tester: lines written to standard output

vars == <<op, pc, calls, result, context_texts, contract_ids, model_name,
          context_parts, prompt, model, model_error, alt_idx, response,
          metadata, text, embed_result, fs, http, printed>>

gen_vars == <<context_texts, contract_ids, model_name, context_parts, prompt, model,
              model_error, alt_idx, response>>
vec_vars == <<metadata, text, embed_result>>
upload_vars == <<fs, http, printed>>

----------------------------------------------------------------------------
(* Bounds of the model *)

MaxCtx == 2
MaxIds == 3
MaxTextLen == 2
MaxDim == 2

----------------------------------------------------------------------------
(* Python values *)

Some(v) == [has |-> TRUE, val |-> v]
NoText == [has |-> FALSE, val |-> <<>>]

Chars == {" ", "a"}
Texts == UNION {[1..n -> Chars] : n \in 0..MaxTextLen}

RECURSIVE lstrip(_)
lstrip(s) == IF s # <<>> /\ Head(s) = " " THEN lstrip(Tail(s)) ELSE s

RECURSIVE rstrip(_)
rstrip(s) ==
    IF s # <<>> /\ s[Len(s)] = " " THEN rstrip(SubSeq(s, 1, Len(s) - 1)) ELSE s

stripMut(s) == lstrip(s)

\* str.strip()
strip(s) == rstrip(lstrip(s))

\* str.join over a sequence of strings
RECURSIVE join(_, _)
join(sep, parts) ==
    IF parts = <<>> THEN <<>>
    ELSE IF Len(parts) = 1 THEN parts[1]
    ELSE parts[1] \o sep \o join(sep, Tail(parts))

\* exceptions
NoError == [type |-> "None", msg |-> <<>>]
ValueError(m) == [type |-> "ValueError", msg |-> m]
\* what genai.GenerativeModel(name) raises when it cannot initialize name
InitError(name) == [type |-> "InitError", msg |-> <<"cannot initialize ", name>>]
\* what model.generate_content raises when the request fails
GenError == [type |-> "GenError", msg |-> <<"generate_content failed">>]

NoResult == [kind |-> "none", value |-> <<>>, error |-> NoError]
Return(v) == [kind |-> "return", value |-> v, error |-> NoError]
Raise(e) == [kind |-> "raise", value |-> <<>>, error |-> e]

----------------------------------------------------------------------------
(* generate_answer: arguments *)

NoneArg == [none |-> TRUE, items |-> <<>>]
ListArg(s) == [none |-> FALSE, items |-> s]

TextOf(i) == <<"text", ToString(i)>>
IdOf(i) == <<"id", ToString(i)>>

ContextTextsArgs ==
    {NoneArg} \cup {ListArg([i \in 1..n |-> TextOf(i)]) : n \in 0..MaxCtx}
ContractIdsArgs ==
    {NoneArg} \cup {ListArg([i \in 1..n |-> IdOf(i)]) : n \in 0..MaxIds}

FalsyMut(arg) == arg.none

\* `not x` for a list-or-None argument
Falsy(arg) == arg.none \/ arg.items = <<>>

alternative_models == <<"gemini-1.5-pro", "gemini-1.5-flash", "gemini-pro">>
ModelNames == {"gemini-2.0-flash", "gemini-1.5-flash"}

NoContextMessage == <<"No contract context available to generate an answer.">>

\* the label and the text of fragment i (0-based, as enumerate yields it)
ContextPartMut(ids, i, t) ==
    IF ~Falsy(ids) /\ i < Len(ids.items)
    THEN <<"Contract ID: ">> \o ids.items[i + 1] \o <<"\n">> \o t
    ELSE <<"Contract Excerpt ", ToString(i), ":\n">> \o t

ContextPart(ids, i, t) ==
    IF ~Falsy(ids) /\ i < Len(ids.items)
    THEN <<"Contract ID: ">> \o ids.items[i + 1] \o <<"\n">> \o t
    ELSE <<"Contract Excerpt ", ToString(i + 1), ":\n">> \o t

BuildContextParts(texts, ids) ==
    [k \in 1..Len(texts.items) |-> ContextPart(ids, k - 1, texts.items[k])]

Query == <<"question">>
Separator == <<"\n\n---\n\n">>
PromptHeader == <<"You are a helpful assistant ... Contract Excerpts:\n">>
PromptFooter == <<"\n\nPlease provide a clear, accurate answer ...">>

\* lines 163-175
BuildPrompt(parts, query) ==
    PromptHeader \o join(Separator, parts) \o <<"\n\nUser Question: ">>
    \o query \o PromptFooter

----------------------------------------------------------------------------
(* generate_answer: the response of the generation service *)

NoParts == [has |-> FALSE, val |-> <<>>]
Content(parts, txt, s) == [parts |-> parts, text |-> txt, str |-> s]
NoContent == [has |-> FALSE, val |-> Content(NoParts, NoText, <<>>)]
Candidate(content, txt, s) == [content |-> content, text |-> txt, str |-> s]
Part(txt) == [text |-> txt]

PartsSamples ==
    { <<>>,
      <<Part(NoText)>>,
      <<Part(Some(<<>>))>>,
      <<Part(Some(<<" ">>))>>,
      <<Part(Some(<<"a">>))>>,
      <<Part(Some(<<" ", "a">>)), Part(Some(<<"a", " ">>))>>,
      <<Part(NoText), Part(Some(<<"a">>))>> }

Candidates ==
    {Candidate(Some(Content(Some(p), Some(<<"a">>), <<"obj">>)), NoText, <<"obj">>) :
        p \in PartsSamples}
    \cup {Candidate(Some(Content(NoParts, Some(t), <<"obj">>)), NoText, <<"obj">>) :
        t \in {<<>>, <<" ">>, <<"a", " ">>}}
    \cup {Candidate(Some(Content(NoParts, NoText, <<"obj">>)), Some(<<"a">>), <<"obj">>)}
    \cup {Candidate(NoContent, Some(t), <<"obj">>) : t \in {<<>>, <<"a">>}}
    \cup {Candidate(NoContent, NoText, <<"obj">>)}

NoCandidates == [has |-> FALSE, val |-> <<>>]
CandidateLists ==
    {NoCandidates, Some(<<>>)}
    \cup {Some(<<c>>) : c \in Candidates}
    \cup {Some(<<Candidate(NoContent, Some(<<>>), <<"obj">>),
                 Candidate(NoContent, Some(<<"a">>), <<"obj">>)>>)}

Feedback(reason) == [block_reason |-> reason]
NoFeedback == [has |-> FALSE, val |-> Feedback(NoText)]
Feedbacks ==
    {NoFeedback, Some(Feedback(NoText)), Some(Feedback(Some(<<>>))),
     Some(Feedback(Some(<<"SAFETY">>)))}

Responses ==
    [text : {NoText} \cup {Some(t) : t \in Texts},
     candidates : CandidateLists,
     prompt_feedback : Feedbacks]

NoResponse == [text |-> NoText, candidates |-> NoCandidates,
               prompt_feedback |-> NoFeedback]

\* the optional answer: has = FALSE is Python's None
NoAnswer == NoText
\* `not answer`
NotAnswer(a) == ~a.has \/ a.val = <<>>

RECURSIVE PartTexts(_)
PartTexts(parts) ==
    IF parts = <<>> THEN <<>>
    ELSE (IF Head(parts).text.has /\ Head(parts).text.val # <<>>
          THEN <<Head(parts).text.val>> ELSE <<>>) \o PartTexts(Tail(parts))

CandidateAnswer(c) ==
    IF c.content.has
    THEN IF c.content.val.parts.has
         THEN IF PartTexts(c.content.val.parts.val) # <<>>
              THEN Some(join(<<>>, PartTexts(c.content.val.parts.val)))
              ELSE NoAnswer
         ELSE IF c.content.val.text.has
         THEN Some(c.content.val.text.val)
         ELSE Some(c.content.val.str)
    ELSE IF c.text.has
    THEN Some(c.text.val)
    ELSE Some(c.str)

\* Methods 1 and 2
ExtractAnswer(r) ==
    IF r.text.has /\ r.text.val # <<>>
    THEN Some(r.text.val)
    ELSE IF r.candidates.has /\ Len(r.candidates.val) > 0
    THEN CandidateAnswer(r.candidates.val[1])
    ELSE NoAnswer

Blocked(r) ==
    /\ r.prompt_feedback.has
    /\ r.prompt_feedback.val.block_reason.has
    /\ r.prompt_feedback.val.block_reason.val # <<>>

AnswerResultMut(r) ==
    LET answer == ExtractAnswer(r) IN
    IF NotAnswer(answer)
    THEN Raise(ValueError(<<"Could not extract answer from Gemini response">>))
    ELSE IF strip(answer.val) = <<>>
    THEN Raise(ValueError(<<"Generated answer is empty">>))
    ELSE Return(strip(answer.val))

\* Method 3 and the final checks
AnswerResult(r) ==
    LET answer == ExtractAnswer(r) IN
    IF NotAnswer(answer) /\ Blocked(r)
    THEN Raise(ValueError(<<"Content was blocked: ">>
                          \o r.prompt_feedback.val.block_reason.val))
    ELSE IF NotAnswer(answer)
    THEN Raise(ValueError(<<"Could not extract answer from Gemini response">>))
    ELSE IF strip(answer.val) = <<>>
    THEN Raise(ValueError(<<"Generated answer is empty">>))
    ELSE Return(strip(answer.val))

AllModelsFailedMut(err) ==
    Raise(ValueError(<<"Could not initialize any Gemini model.">>))

AllModelsFailed(err) ==
    Raise(ValueError(<<"Could not initialize any Gemini model. Original error: ">>
                     \o err.msg))

----------------------------------------------------------------------------
(* vectorize_metadata: the text sent to the embedding service *)

\* a metadata value: its truth value and its str()
Value(truthy, s) == [truthy |-> truthy, str |-> s]
NoValue == [has |-> FALSE, val |-> Value(FALSE, "")]
Zero == Some(Value(FALSE, "0"))
Acme == Some(Value(TRUE, "ACME"))

InvoiceFields == {"invoice_id", "seller_name", "seller_address", "tax_id",
                  "subtotal_amount", "tax_amount"}
ContractFields == {"contract_id", "text", "summary"}
Fields == InvoiceFields \cup ContractFields

\* the order of the `if` statements, with the label of each
FieldOrderMut ==
    << <<"invoice_id", "Invoice ID: ">>, <<"seller_name", "Seller: ">>,
       <<"seller_address", "Address: ">>, <<"tax_id", "Tax ID: ">>,
       <<"tax_amount", "Tax: ">>, <<"subtotal_amount", "Subtotal: ">>,
       <<"contract_id", "Contract ID: ">>, <<"text", "Text: ">>,
       <<"summary", "Summary: ">> >>

FieldOrder ==
    << <<"invoice_id", "Invoice ID: ">>, <<"seller_name", "Seller: ">>,
       <<"seller_address", "Address: ">>, <<"tax_id", "Tax ID: ">>,
       <<"subtotal_amount", "Subtotal: ">>, <<"tax_amount", "Tax: ">>,
       <<"contract_id", "Contract ID: ">>, <<"text", "Text: ">>,
       <<"summary", "Summary: ">> >>

\* metadata mappings: every invoice-only mapping, and some with contract fields
InvoiceMetadata ==
    {[f \in Fields |-> IF f \in InvoiceFields THEN m[f] ELSE NoValue] :
        m \in [InvoiceFields -> {NoValue, Zero, Acme}]}
ContractMetadata ==
    {[f \in Fields |-> IF f \in K THEN Acme ELSE NoValue] :
        K \in SUBSET (ContractFields \cup {"invoice_id"})}
Metadata == InvoiceMetadata \cup ContractMetadata
NoMetadata == [f \in Fields |-> NoValue]

\* `if metadata.get(key)`
Get(m, key) == m[key].has /\ m[key].val.truthy

RECURSIVE TextParts(_, _)
TextParts(m, order) ==
    IF order = <<>> THEN <<>>
    ELSE (IF Get(m, Head(order)[1])
          THEN << <<Head(order)[2], m[Head(order)[1]].val.str>> >>
          ELSE <<>>) \o TextParts(m, Tail(order))

MetadataText(m) == join(<<" | ">>, TextParts(m, FieldOrder))

----------------------------------------------------------------------------
(* vectorize_metadata, vectorize_query: the embedding in the response *)

\* a Python value: kind is its type; items its elements (list, tuple);
\* values the 'values' key (dict) or attribute (obj); embedding the
\* 'embedding' key (dict) or attribute (obj)
Vectors == {[i \in 1..n |-> n + 1 - i] : n \in 0..MaxDim}

Leaf(kind, items) == [kind |-> kind, items |-> items]
LeafValues ==
    {Leaf(k, v) : k \in {"list", "tuple"}, v \in Vectors}
    \cup {Leaf("str", <<>>), Leaf("int", <<>>)}
SequenceValues == {l \in LeafValues : l.kind \in {"list", "tuple"}}
NoLeaf == [has |-> FALSE, val |-> Leaf("none", <<>>)]

Mid(kind, items, values) == [kind |-> kind, items |-> items, values |-> values]
MidValues ==
    {Mid(l.kind, l.items, NoLeaf) : l \in LeafValues}
    \cup {Mid(k, <<>>, v) : k \in {"dict", "obj"},
                            v \in {NoLeaf} \cup {Some(l) : l \in SequenceValues}}
NoMid == [has |-> FALSE, val |-> Mid("none", <<>>, NoLeaf)]

Top(kind, items, values, embedding) ==
    [kind |-> kind, items |-> items, values |-> values, embedding |-> embedding]
EmbedResults ==
    {Top(m.kind, m.items, m.values, NoMid) : m \in MidValues}
    \cup {Top(k, <<>>, NoLeaf, Some(m)) : k \in {"dict", "obj"}, m \in MidValues}
NoEmbedResult == Top("none", <<>>, NoLeaf, NoMid)

\* a bound method, what `d.values` is for a dict d
Method == Leaf("method", <<>>)

\* d.get('values', d)
GetValues(d) == IF d.values.has THEN d.values.val ELSE d

\* lines 63-71, 111-119
FindEmbedding(r) ==
    IF r.kind = "obj" /\ r.embedding.has
    THEN IF r.embedding.val.kind = "dict"
         THEN GetValues(r.embedding.val)
         ELSE r.embedding.val
    ELSE IF r.kind = "dict"
    THEN IF r.embedding.has THEN r.embedding.val ELSE r
    ELSE r

\* hasattr(e, 'values'): every dict has the method
HasAttrValues(e) ==
    \/ e.kind = "dict"
    \/ e.kind = "obj" /\ e.values.has

AttrValues(e) == IF e.kind = "dict" THEN Method ELSE e.values.val

\* hasattr(e, '__iter__') and not isinstance(e, str)
NonStringIterable(e) == e.kind \in {"list", "tuple", "dict"}

\* len(e) is defined
HasLen(e) == e.kind \in {"list", "tuple", "str", "dict"}

TypeError(kind) == [type |-> "TypeError", msg |-> <<"no len(): ", kind>>]
UnexpectedFormat(kind) ==
    ValueError(<<"Unexpected embedding format: ", kind>>)
EmbedError == [type |-> "EmbedError", msg |-> <<"embed_content failed">>]

\* lines 73-86, 121-132
EnsureList(e) ==
    IF e.kind = "list" THEN Return(e)
    ELSE IF HasAttrValues(e) THEN Return(AttrValues(e))
    ELSE IF NonStringIterable(e) THEN Return(Leaf("list", e.items))
    ELSE Raise(UnexpectedFormat(e.kind))

EmbeddingResult(r) ==
    LET e == EnsureList(FindEmbedding(r)) IN
    IF e.kind = "return" /\ ~HasLen(e.value)
    THEN Raise(TypeError(e.value.kind))
    ELSE e

EmbedCall(task_type, ok) == [op |-> "embed", name |-> task_type, ok |-> ok]

Queries == {<<"query">>, <<>>}

----------------------------------------------------------------------------
(* test_upload_invoice, test_upload_contract *)

\* what the file system does with pdf_path: os.path.exists is false; the path
\* exists and open() raises (a directory, no permission); open() succeeds and
\* reading the file raises; the file is read
FileSystems == {"missing", "unopenable", "unreadable", "ok"}

\* an item of the response's metadata: its key, and whether len(str(value)) > 200
Item(key, long) == [key |-> key, long |-> long]
ItemLists ==
    { <<>>,
      <<Item("invoice_id", FALSE)>>,
      <<Item("text", TRUE)>>,
      <<Item("text", FALSE), Item("summary", TRUE)>> }

\* what requests.post and the response do
Http(outcome, items) == [outcome |-> outcome, items |-> items]
NoHttp == Http("none", <<>>)
HttpOutcomes ==
    {Http(o, <<>>) : o \in {"connection_error", "timeout", "exception",
                            "status_500", "ok_invalid_json", "ok_metadata_none"}}
    \cup {Http("ok", items) : items \in ItemLists}

OSError == [type |-> "OSError", msg |-> <<"cannot open pdf_path">>]

TimeoutLines ==
    <<"Error: Request timed out. The document processing is taking longer than expected.",
      "This might be due to:", "  - Large document size",
      "  - Slow API response from Landing AI", "  - Network connectivity issues">>

\* lines 34-35 and 73-78: one line per item; the contract tester truncates
ItemLines(doc_type, items) ==
    [k \in 1..Len(items) |->
        IF doc_type = "contract" /\ items[k].key = "text" /\ items[k].long
        THEN "  key: value[:200]... (truncated)"
        ELSE "  key: value"]

\* lines 26-48 and 65-91: the body of the try statement and its handlers
PostLines(doc_type, f, h) ==
    IF f = "unreadable" THEN <<"Error: e">>
    ELSE IF h.outcome = "connection_error"
    THEN <<"Error: Could not connect to API. Make sure the server is running on http://localhost:8001">>
    ELSE IF h.outcome = "timeout" THEN TimeoutLines
    ELSE IF h.outcome = "exception" THEN <<"Error: e">>
    ELSE IF h.outcome = "status_500" THEN <<"Error: status_code", "response.text">>
    ELSE IF h.outcome = "ok_invalid_json" THEN <<"Error: e">>
    ELSE IF h.outcome = "ok_metadata_none"
    THEN <<"Success!", "Message: message", "Extracted Metadata:", "Error: e">>
    ELSE <<"Success!", "Message: message", "Extracted Metadata:">>
         \o ItemLines(doc_type, h.items)

\* lines 15-48 and 54-91: what is printed
UploadPrinted(doc_type, f, h) ==
    IF f = "missing" THEN <<"Error: File not found: pdf_path">>
    ELSE IF f = "unopenable" THEN <<>>
    ELSE <<"Uploading doc_type: pdf_path...">> \o PostLines(doc_type, f, h)

\* lines 15-48 and 54-91: how the function ends
UploadResult(f) ==
    IF f = "unopenable" THEN Raise(OSError) ELSE Return(<<>>)

PostCall(doc_type) == [op |-> "post", name |-> doc_type, ok |-> TRUE]

\* the request reaches requests.post only with a file that was opened and read
UploadCalls(doc_type, f) == IF f = "ok" THEN <<PostCall(doc_type)>> ELSE <<>>

----------------------------------------------------------------------------
(* generate_answer: the steps *)

InitCall(name, ok) == [op |-> "init", name |-> name, ok |-> ok]
GenCall(name, ok) == [op |-> "generate", name |-> name, ok |-> ok]

Idle ==
    /\ op = "none" /\ pc = "idle" /\ calls = <<>> /\ result = NoResult
    /\ context_texts = NoneArg /\ contract_ids = NoneArg /\ model_name = ""
    /\ context_parts = <<>> /\ prompt = <<>> /\ model = "" /\ model_error = NoError
    /\ alt_idx = 0 /\ response = NoResponse
    /\ metadata = NoMetadata /\ text = <<>> /\ embed_result = NoEmbedResult
    /\ fs = "none" /\ http = NoHttp /\ printed = <<>>

Init == Idle

\* lines 149-179: the empty-context return, the prompt
GenerateAnswerCall ==
    /\ pc = "idle"
    /\ \E c \in ContextTextsArgs, ids \in ContractIdsArgs, m \in ModelNames :
        /\ op' = "generate_answer"
        /\ context_texts' = c
        /\ contract_ids' = ids
        /\ model_name' = m
        /\ IF Falsy(c)
           THEN /\ result' = Return(NoContextMessage)
                /\ pc' = "done"
                /\ context_parts' = <<>>
                /\ prompt' = <<>>
           ELSE /\ result' = result
                /\ pc' = "init"
                /\ context_parts' = BuildContextParts(c, ids)
                /\ prompt' = BuildPrompt(BuildContextParts(c, ids), Query)
    /\ UNCHANGED <<calls, model, model_error, alt_idx, response>>
    /\ UNCHANGED vec_vars /\ UNCHANGED upload_vars

\* lines 182-188: genai.GenerativeModel(model_name)
InitializeModel ==
    /\ pc = "init"
    /\ \E ok \in BOOLEAN :
        /\ calls' = Append(calls, InitCall(model_name, ok))
        /\ IF ok
           THEN /\ model' = model_name
                /\ pc' = "generate"
                /\ UNCHANGED <<model_error, alt_idx>>
           ELSE /\ model_error' = InitError(model_name)
                /\ model' = ""
                /\ alt_idx' = 1
                /\ pc' = "alternatives"
    /\ UNCHANGED <<op, result, context_texts, contract_ids, model_name,
                   context_parts, prompt, response>>
    /\ UNCHANGED vec_vars /\ UNCHANGED upload_vars

SkipAlternativeMut(alt) == FALSE

\* line 190
SkipAlternative(alt) == alt = model_name

\* lines 189-197: one iteration of the loop over alternative_models
TryAlternative ==
    /\ pc = "alternatives"
    /\ alt_idx <= Len(alternative_models)
    /\ LET alt == alternative_models[alt_idx] IN
       IF SkipAlternative(alt)
       THEN /\ alt_idx' = alt_idx + 1
            /\ UNCHANGED <<calls, model, pc>>
       ELSE \E ok \in BOOLEAN :
            /\ calls' = Append(calls, InitCall(alt, ok))
            /\ IF ok
               THEN /\ model' = alt
                    /\ pc' = "generate"
                    /\ UNCHANGED alt_idx
               ELSE /\ alt_idx' = alt_idx + 1
                    /\ UNCHANGED <<model, pc>>
    /\ UNCHANGED <<op, result, context_texts, contract_ids, model_name,
                   context_parts, prompt, model_error, response>>
    /\ UNCHANGED vec_vars /\ UNCHANGED upload_vars

\* lines 199-200: the loop ended with model still None
AlternativesExhausted ==
    /\ pc = "alternatives"
    /\ alt_idx > Len(alternative_models)
    /\ result' = AllModelsFailed(model_error)
    /\ pc' = "done"
    /\ UNCHANGED <<op, calls, context_texts, contract_ids, model_name,
                   context_parts, prompt, model, model_error, alt_idx, response>>
    /\ UNCHANGED vec_vars /\ UNCHANGED upload_vars

GenerateFailsMut ==
    /\ pc = "generate"
    /\ model # alternative_models[Len(alternative_models)]
    /\ calls' = Append(calls, GenCall(model, FALSE))
    /\ model' = alternative_models[Len(alternative_models)]
    /\ UNCHANGED <<op, pc, result, context_texts, contract_ids, model_name,
                   context_parts, prompt, model_error, alt_idx, response>>
    /\ UNCHANGED vec_vars /\ UNCHANGED upload_vars

\* lines 204-208: generate_content raises
GenerateFails ==
    /\ pc = "generate"
    /\ calls' = Append(calls, GenCall(model, FALSE))
    /\ result' = Raise(GenError)
    /\ pc' = "done"
    /\ UNCHANGED <<op, context_texts, contract_ids, model_name, context_parts, prompt,
                   model, model_error, alt_idx, response>>
    /\ UNCHANGED vec_vars /\ UNCHANGED upload_vars

\* lines 204-272: generate_content returns, the answer is extracted
GenerateReturns ==
    /\ pc = "generate"
    /\ \E r \in Responses :
        /\ response' = r
        /\ result' = AnswerResult(r)
    /\ calls' = Append(calls, GenCall(model, TRUE))
    /\ pc' = "done"
    /\ UNCHANGED <<op, context_texts, contract_ids, model_name, context_parts, prompt,
                   model, model_error, alt_idx>>
    /\ UNCHANGED vec_vars /\ UNCHANGED upload_vars

\* lines 22-89
VectorizeMetadata ==
    /\ pc = "idle"
    /\ \E m \in Metadata :
        /\ metadata' = m
        /\ text' = MetadataText(m)
    /\ \/ \E r \in EmbedResults :
            /\ embed_result' = r
            /\ result' = EmbeddingResult(r)
            /\ calls' = <<EmbedCall("RETRIEVAL_DOCUMENT", TRUE)>>
       \/ /\ embed_result' = embed_result
          /\ result' = Raise(EmbedError)
          /\ calls' = <<EmbedCall("RETRIEVAL_DOCUMENT", FALSE)>>
    /\ op' = "vectorize_metadata"
    /\ pc' = "done"
    /\ UNCHANGED gen_vars /\ UNCHANGED upload_vars

\* lines 102-135
VectorizeQuery ==
    /\ pc = "idle"
    /\ \E q \in Queries : text' = q
    /\ \/ \E r \in EmbedResults :
            /\ embed_result' = r
            /\ result' = EmbeddingResult(r)
            /\ calls' = <<EmbedCall("RETRIEVAL_QUERY", TRUE)>>
       \/ /\ embed_result' = embed_result
          /\ result' = Raise(EmbedError)
          /\ calls' = <<EmbedCall("RETRIEVAL_QUERY", FALSE)>>
    /\ op' = "vectorize_query"
    /\ pc' = "done"
    /\ UNCHANGED metadata
    /\ UNCHANGED gen_vars /\ UNCHANGED upload_vars

\* lines 11-48
TestUploadInvoice ==
    /\ pc = "idle"
    /\ \E f \in FileSystems, h \in HttpOutcomes :
        /\ fs' = f
        /\ http' = (IF f = "ok" THEN h ELSE NoHttp)
        /\ printed' = UploadPrinted("invoice", f, h)
        /\ result' = UploadResult(f)
        /\ calls' = UploadCalls("invoice", f)
    /\ op' = "test_upload_invoice"
    /\ pc' = "done"
    /\ UNCHANGED gen_vars /\ UNCHANGED vec_vars

\* lines 50-91
TestUploadContract ==
    /\ pc = "idle"
    /\ \E f \in FileSystems, h \in HttpOutcomes :
        /\ fs' = f
        /\ http' = (IF f = "ok" THEN h ELSE NoHttp)
        /\ printed' = UploadPrinted("contract", f, h)
        /\ result' = UploadResult(f)
        /\ calls' = UploadCalls("contract", f)
    /\ op' = "test_upload_contract"
    /\ pc' = "done"
    /\ UNCHANGED gen_vars /\ UNCHANGED vec_vars

\* the call is over; nothing of it is kept
Finish ==
    /\ pc = "done"
    /\ op' = "none" /\ pc' = "idle" /\ calls' = <<>> /\ result' = NoResult
    /\ context_texts' = NoneArg /\ contract_ids' = NoneArg /\ model_name' = ""
    /\ context_parts' = <<>> /\ prompt' = <<>> /\ model' = "" /\ model_error' = NoError
    /\ alt_idx' = 0 /\ response' = NoResponse
    /\ metadata' = NoMetadata /\ text' = <<>> /\ embed_result' = NoEmbedResult
    /\ fs' = "none" /\ http' = NoHttp /\ printed' = <<>>

Next ==
    \/ GenerateAnswerCall
    \/ InitializeModel
    \/ TryAlternative
    \/ AlternativesExhausted
    \/ GenerateFails
    \/ GenerateReturns
    \/ VectorizeMetadata
    \/ VectorizeQuery
    \/ TestUploadInvoice
    \/ TestUploadContract
    \/ Finish

Spec == Init /\ [][Next]_vars

----------------------------------------------------------------------------
(* Properties of generate_answer *)

InitCalls == SelectSeq(calls, LAMBDA c : c.op = "init")
GenerateCalls == SelectSeq(calls, LAMBDA c : c.op = "generate")
\* the alternative identifiers the fallback can try
Alternatives == SelectSeq(alternative_models, LAMBDA a : a # model_name)

AnswerDone == op = "generate_answer" /\ pc = "done"

\* the configured model and every alternative failed to initialize
AllInitFailed ==
    /\ AnswerDone
    /\ Len(calls) = 1 + Len(Alternatives)
    /\ \A i \in 1..Len(calls) : calls[i].op = "init" /\ ~calls[i].ok

\* C1, as stated: when the configured model and every alternative fail to
\* initialize, the caller receives the error raised for the configured model.
C1_OriginalErrorRaised ==
    AllInitFailed => result = Raise(InitError(model_name))

\* C1, amended: when the configured model and every alternative fail to
\* initialize, the caller receives a new ValueError whose message is
\* "Could not initialize any Gemini model. Original error: " followed by the
\* message of the error raised for the configured model.
C1_WrappedErrorRaised ==
    AllInitFailed =>
        /\ result.kind = "raise"
        /\ result.error.type = "ValueError"
        /\ result.error.msg =
              <<"Could not initialize any Gemini model. Original error: ">>
              \o InitError(model_name).msg

C1_Witness ==
    /\ AllInitFailed
    /\ model_name = "gemini-2.0-flash"
    /\ Len(calls) = 4
    /\ result.kind = "raise"

\* t is s without its leading and trailing whitespace
Trimmed(s, t) ==
    \E i, j \in 1..Len(s) :
        /\ i <= j
        /\ t = SubSeq(s, i, j)
        /\ s[i] # " " /\ s[j] # " "
        /\ \A k \in 1..Len(s) : (k < i \/ k > j) => s[k] = " "

\* generate_content returned a response
Answered ==
    /\ AnswerDone
    /\ calls # <<>>
    /\ calls[Len(calls)].op = "generate" /\ calls[Len(calls)].ok

Blank(s) == \A i \in 1..Len(s) : s[i] = " "

\* nothing was extracted from the response, or only whitespace
NoAnswerText ==
    ~ExtractAnswer(response).has \/ Blank(ExtractAnswer(response).val)

\* the configured model failed, a later alternative initialized, and the
\* service answered with non-blank text (in response.text, else in its first
\* candidate)
FallbackAnswered ==
    /\ AnswerDone
    /\ Len(calls) >= 3
    /\ calls[1] = InitCall(model_name, FALSE)
    /\ Answered
    /\ ~NoAnswerText

\* C2: when the configured model fails to initialize, a later alternative
\* initializes and the service answers with non-blank text, the call returns a
\* non-empty answer; the alternatives were tried in list order, each before the
\* successful one failed, and the successful one is the last tried and the one
\* the generation request went to.
C2_FallbackReturnsAnswer ==
    FallbackAnswered =>
        LET k == Len(InitCalls) - 1 IN
        /\ result.kind = "return"
        /\ result.value # <<>>
        /\ Trimmed(ExtractAnswer(response).val, result.value)
        /\ k >= 1 /\ k <= Len(Alternatives)
        /\ Len(calls) = k + 2
        /\ \A j \in 1..k : calls[j + 1] = InitCall(Alternatives[j], j = k)
        /\ calls[k + 2] = GenCall(Alternatives[k], TRUE)

C2_Witness ==
    /\ FallbackAnswered
    /\ model_name = "gemini-1.5-flash"
    /\ calls = <<InitCall("gemini-1.5-flash", FALSE), InitCall("gemini-1.5-pro", FALSE),
                 InitCall("gemini-pro", TRUE), GenCall("gemini-pro", TRUE)>>
    /\ result.kind = "return"

\* C3: with context_texts empty or None, whatever contract_ids is, the call
\* returns the fixed no-context message and issues no request: no model is
\* initialized and nothing is generated.
C3_EmptyContextNoService ==
    (op = "generate_answer" /\ (context_texts.none \/ context_texts.items = <<>>)) =>
        /\ pc = "done"
        /\ result = Return(NoContextMessage)
        /\ calls = <<>>

C3_Witness ==
    /\ AnswerDone
    /\ context_texts = ListArg(<<>>)
    /\ contract_ids = ListArg(<<IdOf(1)>>)
    /\ result = Return(NoContextMessage)

\* C6: fragment i (0-based) of the prompt is labeled "Contract ID: <id i>" when
\* contract_ids is given and i is within it, and "Contract Excerpt <i+1>:"
\* otherwise; the fragments stand in the prompt in the order of context_texts.
C6_Label(i) ==
    IF ~contract_ids.none /\ i < Len(contract_ids.items)
    THEN <<"Contract ID: ">> \o contract_ids.items[i + 1] \o <<"\n">>
    ELSE <<"Contract Excerpt ", ToString(i + 1), ":\n">>

C6_Fragments ==
    [k \in 1..Len(context_texts.items) |->
        C6_Label(k - 1) \o context_texts.items[k]]

C6_PromptLabels ==
    (op = "generate_answer" /\ context_texts.items # <<>>) =>
        /\ context_parts = C6_Fragments
        /\ prompt = PromptHeader \o join(Separator, C6_Fragments)
                    \o <<"\n\nUser Question: ">> \o Query \o PromptFooter

C6_Witness ==
    /\ op = "generate_answer" /\ pc = "generate"
    /\ Len(context_texts.items) = 2
    /\ ~contract_ids.none /\ Len(contract_ids.items) = 1
    /\ context_parts[2][1] = "Contract Excerpt "

\* C10: the generation request is issued at most once, right after a
\* successful initialization of the model it goes to, and nothing is requested
\* after it; when it raises, that error reaches the caller; no identifier is
\* initialized twice.
C10_SingleGeneration ==
    op = "generate_answer" =>
        /\ Len(GenerateCalls) <= 1
        /\ \A i \in 1..Len(calls) :
              calls[i].op = "generate" =>
                  /\ i = Len(calls)
                  /\ i > 1
                  /\ calls[i - 1] = InitCall(calls[i].name, TRUE)
                  /\ pc = "done"
                  /\ ~calls[i].ok => result = Raise(GenError)
        /\ \A i, j \in 1..Len(InitCalls) :
              InitCalls[i].name = InitCalls[j].name => i = j

C10_Witness ==
    /\ AnswerDone
    /\ Len(calls) = 3
    /\ calls[1] = InitCall(model_name, FALSE)
    /\ calls[2].ok
    /\ calls[3] = GenCall(calls[2].name, FALSE)
    /\ result = Raise(GenError)

HasBlockReason ==
    /\ response.prompt_feedback.has
    /\ response.prompt_feedback.val.block_reason.has
    /\ response.prompt_feedback.val.block_reason.val # <<>>

CouldNotExtract ==
    Raise(ValueError(<<"Could not extract answer from Gemini response">>))
AnswerIsEmpty == Raise(ValueError(<<"Generated answer is empty">>))
ContentWasBlocked ==
    Raise(ValueError(<<"Content was blocked: ">>
                     \o response.prompt_feedback.val.block_reason.val))

ReturnsTrimmed ==
    (AnswerDone /\ result.kind = "return") =>
        /\ result.value # <<>>
        /\ result.value[1] # " "
        /\ result.value[Len(result.value)] # " "

\* C7, as stated: a returned string is non-empty and has no leading or
\* trailing whitespace; a response with no extractable text, or with empty or
\* whitespace-only text, fails with "Could not extract answer from Gemini
\* response" or "Generated answer is empty".
C7_TwoErrorsOnly ==
    /\ ReturnsTrimmed
    /\ (Answered /\ NoAnswerText) => result \in {CouldNotExtract, AnswerIsEmpty}

\* C7, amended: a returned string is non-empty and has no leading or trailing
\* whitespace; a response with no extractable text, or with empty or
\* whitespace-only text, fails with "Content was blocked: <reason>" when nothing
\* or the empty string was extracted and prompt_feedback carries a block
\* reason, and otherwise with "Could not extract answer from Gemini response"
\* or "Generated answer is empty".
C7_TrimmedOrError ==
    /\ ReturnsTrimmed
    /\ (Answered /\ NoAnswerText) =>
          IF HasBlockReason /\ (~ExtractAnswer(response).has
                                \/ ExtractAnswer(response).val = <<>>)
          THEN result = ContentWasBlocked
          ELSE result \in {CouldNotExtract, AnswerIsEmpty}

C7_Witness ==
    /\ Answered
    /\ response.text = Some(<<"a", " ">>)
    /\ result = Return(<<"a">>)

\* C8, as stated: a response whose prompt_feedback carries a block reason
\* fails with "Content was blocked: <reason>", whatever its text and
\* candidates hold.
C8_BlockedAlwaysRaises ==
    (Answered /\ HasBlockReason) => result = ContentWasBlocked

\* the text the response carries: its text field, else its first candidate's
TextFound ==
    IF response.text.has /\ response.text.val # <<>> THEN response.text.val
    ELSE IF response.candidates.has /\ response.candidates.val # <<>>
         THEN (IF CandidateAnswer(response.candidates.val[1]).has
               THEN CandidateAnswer(response.candidates.val[1]).val ELSE <<>>)
         ELSE <<>>

\* C8, amended: a response whose prompt_feedback carries a block reason and
\* from which no text, or only the empty string, is extracted fails with
\* "Content was blocked: <reason>"; when text is extracted the block reason is
\* not looked at: the call returns the trimmed text, or fails with "Generated
\* answer is empty" when the text is whitespace only.
C8_BlockedWithoutAnswerRaises ==
    (Answered /\ HasBlockReason) =>
        IF TextFound = <<>> THEN result = ContentWasBlocked
        ELSE IF Blank(TextFound) THEN result = AnswerIsEmpty
        ELSE result.kind = "return" /\ Trimmed(TextFound, result.value)

C8_Witness ==
    /\ Answered
    /\ HasBlockReason
    /\ ~response.text.has
    /\ response.candidates = Some(<<>>)
    /\ result = ContentWasBlocked

----------------------------------------------------------------------------
(* Properties of vectorize_metadata and vectorize_query *)

Embedded ==
    /\ op \in {"vectorize_metadata", "vectorize_query"}
    /\ pc = "done"
    /\ calls[1].ok

\* where the response carries the embedding
Carrier ==
    IF embed_result.kind \in {"dict", "obj"} /\ embed_result.embedding.has
    THEN embed_result.embedding.val
    ELSE embed_result

\* the numbers of a plain list, of a mapping or object holding a list under
\* 'values', or of another non-string iterable
Numbers ==
    IF Carrier.kind = "list" THEN Some(Carrier.items)
    ELSE IF /\ Carrier.kind \in {"dict", "obj"}
            /\ Carrier.values.has
            /\ Carrier.values.val.kind \in {"list", "tuple"}
    THEN Some(Carrier.values.val.items)
    ELSE IF Carrier.kind = "tuple" THEN Some(Carrier.items)
    ELSE [has |-> FALSE, val |-> <<>>]

\* C4: a response carrying the embedding as a plain list, as a mapping or
\* object holding the numbers under 'values', or as another non-string
\* iterable yields the flat sequence of the same numbers in the same order;
\* every other response fails with "Unexpected embedding format".
C4_FlatListOrFormatError ==
    Embedded =>
        IF Numbers.has
        THEN /\ result.kind = "return"
             /\ result.value.kind \in {"list", "tuple"}
             /\ result.value.items = Numbers.val
        ELSE /\ result.kind = "raise"
             /\ result.error.type = "ValueError"
             /\ result.error.msg[1] = "Unexpected embedding format: "

InvoiceOnly == \A f \in ContractFields : ~metadata[f].has

InvoiceLabels ==
    << <<"invoice_id", "Invoice ID: ">>, <<"seller_name", "Seller: ">>,
       <<"seller_address", "Address: ">>, <<"tax_id", "Tax ID: ">>,
       <<"subtotal_amount", "Subtotal: ">>, <<"tax_amount", "Tax: ">> >>

\* the labeled segments of the fields kept, in order
Segments(kept) ==
    [k \in 1..Len(kept) |-> <<kept[k][2], metadata[kept[k][1]].val.str>>]

PresentFields == SelectSeq(InvoiceLabels, LAMBDA p : metadata[p[1]].has)
TruthyFields ==
    SelectSeq(InvoiceLabels,
              LAMBDA p : metadata[p[1]].has /\ metadata[p[1]].val.truthy)

\* C5, as stated: for a mapping of invoice fields only, whatever the values,
\* the text sent to the embedding service is one labeled segment per field
\* present in the mapping, in the order invoice id, seller, address, tax id,
\* subtotal, tax, joined by " | ".
C5_EveryPresentField ==
    (op = "vectorize_metadata" /\ pc = "done" /\ InvoiceOnly) =>
        text = join(<<" | ">>, Segments(PresentFields))

\* C5, amended: for a mapping of invoice fields only, the text sent to the
\* embedding service is one labeled segment per field present in the mapping
\* with a truthy value (not None, empty or zero), in the order invoice id,
\* seller, address, tax id, subtotal, tax, joined by " | "; a field that is
\* absent or whose value is falsy has no segment.
C5_EveryTruthyField ==
    (op = "vectorize_metadata" /\ pc = "done" /\ InvoiceOnly) =>
        text = join(<<" | ">>, Segments(TruthyFields))

C5_Witness ==
    /\ op = "vectorize_metadata" /\ pc = "done"
    /\ metadata["invoice_id"] = Acme
    /\ metadata["seller_name"] = NoValue
    /\ metadata["subtotal_amount"] = Zero
    /\ metadata["tax_amount"] = Acme
    /\ text = <<"Invoice ID: ", "ACME", " | ", "Tax: ", "ACME">>

----------------------------------------------------------------------------
(* Properties of the upload tester *)

Uploaded ==
    /\ op \in {"test_upload_invoice", "test_upload_contract"}
    /\ pc = "done"

UploadFailed == fs # "ok" \/ http.outcome # "ok"

ErrorLines ==
    {"Error: File not found: pdf_path", "Error: e", "Error: status_code",
     "Error: Could not connect to API. Make sure the server is running on http://localhost:8001",
     "Error: Request timed out. The document processing is taking longer than expected."}

\* C9: whatever the file system and the request do, the tester prints an
\* error message and returns; no exception leaves it.
C9_NoFailureEscapes ==
    Uploaded =>
        /\ result.kind = "return"
        /\ UploadFailed => \E i \in 1..Len(printed) : printed[i] \in ErrorLines

====
